---- MODULE Spec2Model ----
(***************************************************************************)
(* Wishly: the background worker loop (worker.ts), the domain router       *)
(* (server/scraper.ts, routeAndScrape) and the in-memory item store        *)
(* (storage.ts, MemStorage), together with the API handlers that create,   *)
(* delete and re-queue items.                                              *)
(*                                                                         *)
(* Text (URLs, error messages) is a sequence of text fragments; a          *)
(* substring test is a search for a contiguous run of fragments.  A value  *)
(* that JavaScript may leave undefined is the empty sequence, a defined    *)
(* one is the one-element sequence holding it.                             *)
(***************************************************************************)
EXTENDS Integers, Sequences, FiniteSets, TLC

\* ------------------------------------------------------------------ bounds
MaxRequests == 3    \* create, delete and re-queue requests the API serves in one run
MaxPreviews == 1    \* preview requests the API serves in one run
MaxSignals == 2     \* termination signals delivered in one run
MaxRows == 4        \* price-history rows up to which bulk rechecks repeat freely
MaxItems == 1       \* items created in the runs checked for progress
MaxQueued == 2      \* items created in the runs under repeated bulk rechecks

\* --------------------------------------------------------- JavaScript values
Undefined == <<>>
Some(v) == <<v>>

\* String.prototype.includes on fragment sequences
Includes(s, sub) ==
    \E i \in 0..(Len(s) - Len(sub)) : \A j \in 1..Len(sub) : s[i + j] = sub[j]

\* String.prototype.endsWith on fragment sequences
EndsWith(s, suffix) ==
    /\ Len(s) >= Len(suffix)
    /\ \A j \in 1..Len(suffix) : s[Len(s) - Len(suffix) + j] = suffix[j]

\* lower-casing of one fragment (only the fragments that carry capitals)
LowerFragment(t) ==
    CASE t = "Not Found" -> "not found"
      [] t = "HTTP" -> "http"
      [] t = "Scraping failed for" -> "scraping failed for"
      [] t = "(Domain:" -> "(domain:"
      [] t = "No scraper registered for domain:" -> "no scraper registered for domain:"
      [] t = "Navigation timeout of 60000 ms exceeded" -> "navigation timeout of 60000 ms exceeded"
      [] t = "Protocol error" -> "protocol error"
      [] t = "Waiting for selector failed:" -> "waiting for selector failed:"
      [] t = "requires a Puppeteer page instance." -> "requires a puppeteer page instance."
      [] OTHER -> t

\* String.prototype.toLowerCase
toLowerCase(s) == [i \in 1..Len(s) |-> LowerFragment(s[i])]

\* ------------------------------------------------------------------- URLs
\* a URL is its hostname (dot-separated labels) and the rest of its text
UrlZara == [host |-> <<"www", "zara", "com">>, path |-> <<"/dress">>]
UrlMytheresa == [host |-> <<"mytheresa", "com">>, path |-> <<"/bag">>]
UrlMytheresa404 == [host |-> <<"www", "mytheresa", "com">>, path |-> <<"/p", "404", ".html">>]
UrlUnregistered == [host |-> <<"shop", "example", "com">>, path |-> <<"/x">>]
UrlUnregisteredWww == [host |-> <<"www", "example", "org">>, path |-> <<"/y">>]
UrlMaxMaraUs == [host |-> <<"us", "maxmara", "com">>, path |-> <<"/coat">>]
UrlRalphLaurenUk == [host |-> <<"www", "ralphlauren", "co", "uk">>, path |-> <<"/polo">>]
UrlAmazon == [host |-> <<"www", "amazon", "de">>, path |-> <<"/dp">>]
UrlJCrew == [host |-> <<"www", "jcrew", "com">>, path |-> <<"/p">>]
UrlRalphLauren == [host |-> <<"www", "ralphlauren", "com">>, path |-> <<"/polo">>]
\* the urls whose extractor is modelled on page content
ExtractUrls == {UrlMytheresa, UrlJCrew, UrlRalphLauren}
\* the urls handed to the generic scraper (none is on its JavaScript-heavy list)
GenericUrls == {UrlMytheresa, UrlUnregistered}
\* the urls of the items the API creates
Urls == {UrlMytheresa, UrlMytheresa404, UrlUnregistered}
\* the urls a preview request may carry
RouterUrls == Urls \cup {UrlZara, UrlUnregisteredWww, UrlMaxMaraUs, UrlRalphLaurenUk,
                         UrlAmazon}

\* the text of a URL, as it appears inside a message
UrlText(url) == <<"https://">> \o url.host \o url.path

\* ----------------------------------------------------------------- router
\* domain -> extractor class (the table of server/scraper.ts)
RegistryEntries ==
    { << <<"mytheresa", "com">>, "MytheresaScraper" >>,
      << <<"zara", "com">>, "ZaraScraper" >>,
      << <<"hm", "com">>, "HmScraper" >>,
      << <<"www2", "hm", "com">>, "HmScraper" >>,
      << <<"aym-studio", "com">>, "AymScraper" >>,
      << <<"coachoutlet", "com">>, "CoachOutletScraper" >>,
      << <<"amazon", "com">>, "AmazonScraper" >>,
      << <<"amazon", "co", "uk">>, "AmazonScraper" >>,
      << <<"amazon", "de">>, "AmazonScraper" >>,
      << <<"amazon", "fr">>, "AmazonScraper" >>,
      << <<"amazon", "ca">>, "AmazonScraper" >>,
      << <<"etsy", "com">>, "EtsyScraper" >>,
      << <<"ctshirts", "com">>, "CharlesTyrhittScraper" >>,
      << <<"thefoldlondon", "com">>, "TheFoldScraper" >>,
      << <<"ralphlauren", "com">>, "RalphLaurenScraper" >>,
      << <<"ralphlauren", "co", "uk">>, "RalphLaurenScraper" >>,
      << <<"jcrew", "com">>, "JCrewScraper" >>,
      << <<"maxmara", "com">>, "MaxMaraScraper" >>,
      << <<"us", "maxmara", "com">>, "MaxMaraScraper" >>,
      << <<"gb", "maxmara", "com">>, "MaxMaraScraper" >>,
      << <<"yoox", "com">>, "YooxScraper" >>,
      << <<"farfetch", "com">>, "FarfetchScraper" >>,
      << <<"theoutnet", "com">>, "TheOutnetScraper" >> }

\* SCRAPER_REGISTRY[domain]: the class, or undefined
SCRAPER_REGISTRY(domain) ==
    IF \E e \in RegistryEntries : e[1] = domain
    THEN Some((CHOOSE e \in RegistryEntries : e[1] = domain)[2])
    ELSE Undefined

JAVASCRIPT_HEAVY_DOMAINS ==
    { <<"zara", "com">>, <<"hm", "com">>, <<"shop", "mango", "com">>,
      <<"gap", "com">>, <<"forever21", "com">>, <<"jcrew", "com">>,
      <<"ralphlauren", "com">>, <<"farfetch", "com">>, <<"amazon", "com">>,
      <<"amazon", "co", "uk">>, <<"amazon", "de">>, <<"amazon", "fr">>,
      <<"amazon", "ca">> }

isJavaScriptHeavySite(url) ==
    \E heavy \in JAVASCRIPT_HEAVY_DOMAINS : Includes(toLowerCase(url.host), heavy)

\* the extractor classes whose constructor throws without a page handle
RequiresPage ==
    {"ZaraScraper", "HmScraper", "AmazonScraper", "RalphLaurenScraper",
     "JCrewScraper", "FarfetchScraper"}

\* routeAndScrape, lines 90-94: strip a leading www., collapse *.maxmara.com
NormalizeDomain(host) ==
    LET stripped == IF Len(host) > 1 /\ host[1] = "www" THEN Tail(host) ELSE host
    IN  IF EndsWith(stripped, <<"maxmara", "com">>) THEN <<"maxmara", "com">>
        ELSE stripped

\* messages the browser and the page may fail with
TimeoutMessage == <<"Navigation timeout of 60000 ms exceeded">>
Http404Message == <<"HTTP", "404">>
NotFoundMessage == <<"Page", "Not Found">>
ProtocolMessage == <<"Protocol error">>
SelectorTimeoutMessage == <<"Waiting for selector failed:", "timeout", "exceeded">>
UnregisteredMessage(domain) == <<"No scraper registered for domain:">> \o domain

OpenErrors == {ProtocolMessage}
NavigationErrors == {TimeoutMessage, Http404Message, NotFoundMessage}
ScrapeErrors == {SelectorTimeoutMessage}
CloseErrors == {ProtocolMessage}

\* what an extractor's scrape() may return
ProductPriced ==
    [name |-> "Silk Dress", priceInfo |-> Some([price |-> 4550, currency |-> "EUR"]),
     availableSizes |-> <<[name |-> "M", inStock |-> TRUE]>>,
     images |-> <<"https://cdn/img1.jpg">>, inStock |-> TRUE,
     description |-> Some("A dress")]
ProductUnpriced ==
    [name |-> "Untitled Product", priceInfo |-> Undefined,
     availableSizes |-> <<>>,
     images |-> <<"https://via.placeholder.com/400">>, inStock |-> FALSE,
     description |-> Undefined]
ScrapedProducts == {ProductPriced, ProductUnpriced}

\* routeAndScrape, line 168: the message is rewritten with the url and domain
Annotate(c, msg) ==
    <<"Scraping failed for">> \o UrlText(c.url) \o <<"(Domain:">> \o c.domain
        \o <<"):">> \o msg

\* routeAndScrape, lines 161-170: the catch block, up to its first await.
\* cause is the message the propagating error was thrown with.
RouteCatch(c, msg) ==
    IF c.page = "open"
    THEN [c EXCEPT !.pc = "catchClose", !.error = Some(msg), !.cause = Some(msg)]
    ELSE [c EXCEPT !.pc = "thrown", !.error = Some(Annotate(c, msg)),
                   !.cause = Some(msg)]

\* a router that holds a page before it looks the domain up
RouteStartPageFirst(itemId, url) ==
    LET domain == NormalizeDomain(url.host)
        c == [pc |-> "navigate", itemId |-> itemId, url |-> url, domain |-> domain,
              cls |-> SCRAPER_REGISTRY(domain), page |-> "open",
              navigated |-> FALSE, html |-> Undefined, handle |-> "none",
              result |-> Undefined, error |-> Undefined, cause |-> Undefined]
    IN  IF c.cls = Undefined THEN RouteCatch(c, UnregisteredMessage(domain)) ELSE c

\* routeAndScrape, lines 90-116: from the call to the first await
RouteStart(itemId, url) ==
    LET domain == NormalizeDomain(url.host)
        c == [pc |-> "newPage", itemId |-> itemId, url |-> url, domain |-> domain,
              cls |-> SCRAPER_REGISTRY(domain), page |-> "null",
              navigated |-> FALSE, html |-> Undefined, handle |-> "none",
              result |-> Undefined, error |-> Undefined, cause |-> Undefined]
    IN  IF c.cls = Undefined THEN RouteCatch(c, UnregisteredMessage(domain)) ELSE c

\* ------------------------------------------------------------- MemStorage
\* the store: items and price-history rows in insertion order (a JavaScript
\* Map iterates in insertion order), and the source of fresh ids
Get(updates, k) == IF k \in DOMAIN updates THEN updates[k] ELSE Undefined

IndexOf(st, id) ==
    IF \E i \in 1..Len(st.items) : st.items[i].id = id
    THEN CHOOSE i \in 1..Len(st.items) : st.items[i].id = id
    ELSE 0

\* MemStorage.getItems
getItems(st) == st.items

\* MemStorage.getItem
getItem(st, id) == IF IndexOf(st, id) = 0 THEN Undefined ELSE Some(st.items[IndexOf(st, id)])

\* MemStorage.addPriceHistory
addPriceHistory(st, history) ==
    [st EXCEPT !.priceHistory = Append(@, history @@ [id |-> st.uuid]),
               !.uuid = @ + 1]

\* MemStorage.createItem
createItem(st, insertItem) ==
    LET item == insertItem @@ [id |-> st.uuid]
        st1 == [st EXCEPT !.items = Append(@, item), !.uuid = @ + 1]
    IN  addPriceHistory(st1, [itemId |-> item.id, price |-> item.price,
                              currency |-> item.currency, inStock |-> item.inStock])

\* the spread written in the wrong order: the stored fields win
MergeItemReversed(item, updates) ==
    [k \in DOMAIN item |-> item[k]]

\* MemStorage.updateItem, lines 127-131: {...item, ...updates}
MergeItem(item, updates) ==
    [k \in DOMAIN item \cup DOMAIN updates |->
        IF k \in DOMAIN updates THEN updates[k] ELSE item[k]]

\* MemStorage.updateItem: merge, store, then a row if the price changed
updateItem(st, id, updates) ==
    LET i == IndexOf(st, id) IN
    IF i = 0 THEN st
    ELSE LET item == st.items[i]
             updatedItem == MergeItem(item, updates)
             st1 == [st EXCEPT !.items[i] = updatedItem]
         IN  IF Get(updates, "price") # Undefined /\ updates.price # item.price
             THEN addPriceHistory(st1,
                    [itemId |-> id, price |-> updates.price,
                     currency |-> IF Get(updates, "currency") # Undefined
                                  THEN updates.currency ELSE item.currency,
                     inStock |-> IF "inStock" \in DOMAIN updates
                                 THEN updates.inStock ELSE item.inStock])
             ELSE st1

\* a delete that empties the whole price history
deleteItemAllRows(st, id) ==
    [st EXCEPT !.priceHistory = <<>>,
               !.items = SelectSeq(@, LAMBDA it : it.id # id)]

\* MemStorage.deleteItem: the item and its price-history rows
deleteItem(st, id) ==
    [st EXCEPT !.priceHistory = SelectSeq(@, LAMBDA h : h.itemId # id),
               !.items = SelectSeq(@, LAMBDA it : it.id # id)]

\* ----------------------------------------------------------------- worker
\* a poll that prefers the most recently inserted pending item
getNextItemToScrapeNewest(st) ==
    LET allItems == getItems(st) IN
    IF \E i \in 1..Len(allItems) : allItems[i].status = "pending"
    THEN Some(allItems[CHOOSE i \in 1..Len(allItems) :
                          /\ allItems[i].status = "pending"
                          /\ \A j \in (i + 1)..Len(allItems) : allItems[j].status # "pending"])
    ELSE Undefined

\* worker.ts getNextItemToScrape: the first item whose status is pending
getNextItemToScrape(st) ==
    LET allItems == getItems(st) IN
    IF \E i \in 1..Len(allItems) : allItems[i].status = "pending"
    THEN Some(allItems[CHOOSE i \in 1..Len(allItems) :
                          /\ allItems[i].status = "pending"
                          /\ \A j \in 1..(i - 1) : allItems[j].status # "pending"])
    ELSE Undefined

LinkDeadMessage == <<"Product", "not found", "(", "404", ")">>

\* the scraped fields copied whatever the status: a failure wipes them
FailedUpdatesWithScrapedFields(base, errorMessage) ==
    base @@ [price |-> Undefined, currency |-> Undefined, images |-> <<>>,
             availableSizes |-> <<>>, lastCheckError |-> Some(errorMessage)]

\* updateScrapedItem, lines 100-101: what a failure writes
FailedUpdates(base, errorMessage) ==
    base @@ [lastCheckError |-> Some(errorMessage)]

\* a dead link recorded without touching the stock flag
LinkDeadUpdatesKeepStock(base) ==
    base @@ [lastCheckError |-> Some(LinkDeadMessage)]

\* updateScrapedItem, lines 102-105: what a dead link writes
LinkDeadUpdates(base) ==
    base @@ [inStock |-> FALSE, lastCheckError |-> Some(LinkDeadMessage)]

\* worker.ts updateScrapedItem
updateScrapedItem(st, id, scrapedData, status, errorMessage) ==
    LET base == [status |-> status, lastCheckedAt |-> Some("Date")] IN
    IF status = "processed"
    THEN LET updates ==
                 base @@
                 [name |-> Some(scrapedData.name),
                  price |-> IF scrapedData.priceInfo = Undefined THEN Undefined
                            ELSE Some(scrapedData.priceInfo[1].price),
                  currency |-> IF scrapedData.priceInfo = Undefined THEN Undefined
                               ELSE Some(scrapedData.priceInfo[1].currency),
                  images |-> scrapedData.images,
                  availableSizes |-> [i \in 1..Len(scrapedData.availableSizes) |->
                                         scrapedData.availableSizes[i].name],
                  inStock |-> scrapedData.inStock,
                  description |-> scrapedData.description]
             st1 == IF updates.price # Undefined
                    THEN addPriceHistory(st, [itemId |-> id, price |-> updates.price,
                                              currency |-> updates.currency,
                                              inStock |-> updates.inStock])
                    ELSE st
         IN  updateItem(st1, id, updates)
    ELSE IF status = "failed"
    THEN updateItem(st, id, FailedUpdates(base, errorMessage))
    ELSE updateItem(st, id, LinkDeadUpdates(base))

\* the same test without the lower-casing
IsLinkDeadCaseSensitive(message) ==
    Includes(message, <<"404">>) \/ Includes(message, <<"not found">>)

\* worker.ts main, lines 148-151: the test that selects link_dead
IsLinkDead(message) ==
    Includes(message, <<"404">>) \/ Includes(toLowerCase(message), <<"not found">>)

\* ------------------------------------------------------- characters, numbers
\* price text is a sequence of one-character strings
Digits == {"0", "1", "2", "3", "4", "5", "6", "7", "8", "9"}
DigitValue(ch) ==
    CASE ch = "0" -> 0 [] ch = "1" -> 1 [] ch = "2" -> 2 [] ch = "3" -> 3
      [] ch = "4" -> 4 [] ch = "5" -> 5 [] ch = "6" -> 6 [] ch = "7" -> 7
      [] ch = "8" -> 8 [] ch = "9" -> 9

UpperLetters == <<"A", "B", "C", "D", "E", "F", "G", "H", "I", "J", "K", "L", "M",
                  "N", "O", "P", "Q", "R", "S", "T", "U", "V", "W", "X", "Y", "Z">>
LowerLetters == <<"a", "b", "c", "d", "e", "f", "g", "h", "i", "j", "k", "l", "m",
                  "n", "o", "p", "q", "r", "s", "t", "u", "v", "w", "x", "y", "z">>
\* the /i flag of a regular expression, one character at a time
LowerChar(ch) ==
    IF \E k \in 1..Len(UpperLetters) : UpperLetters[k] = ch
    THEN LowerLetters[CHOOSE k \in 1..Len(UpperLetters) : UpperLetters[k] = ch]
    ELSE ch

Chars(s) == {s[k] : k \in 1..Len(s)}
\* String.prototype.replace(/[...]/g, "")
RemoveChars(s, class) == SelectSeq(s, LAMBDA ch : ch \notin class)
\* String.prototype.replace(ch, by): the first occurrence only
ReplaceFirst(s, ch, by) ==
    IF ch \notin Chars(s) THEN s
    ELSE LET k == CHOOSE k \in 1..Len(s) : s[k] = ch /\ \A j \in 1..(k - 1) : s[j] # ch
         IN  SubSeq(s, 1, k - 1) \o by \o SubSeq(s, k + 1, Len(s))
lastIndexOf(s, ch) ==
    CHOOSE k \in 1..Len(s) : s[k] = ch /\ \A j \in (k + 1)..Len(s) : s[j] # ch
\* the end of the longest run of characters of a class that starts at from
\* (from - 1 when there is none)
RunEnd(s, from, class) ==
    CHOOSE e \in (from - 1)..Len(s) :
        /\ \A k \in from..e : s[k] \in class
        /\ e = Len(s) \/ s[e + 1] \notin class

RECURSIVE TrimLeft(_)
TrimLeft(s) == IF s # <<>> /\ Head(s) = " " THEN TrimLeft(Tail(s)) ELSE s
RECURSIVE TrimRight(_)
TrimRight(s) ==
    IF s # <<>> /\ s[Len(s)] = " " THEN TrimRight(SubSeq(s, 1, Len(s) - 1)) ELSE s
\* String.prototype.trim
trim(s) == TrimRight(TrimLeft(s))

RECURSIVE DigitsValue(_)
DigitsValue(ds) ==
    IF ds = <<>> THEN 0
    ELSE DigitsValue(SubSeq(ds, 1, Len(ds) - 1)) * 10 + DigitValue(ds[Len(ds)])

\* Number.NaN; a number n is Some(n)
NaN == <<>>

\* parseFloat: leading blanks, a sign, digits, a dot, digits; the rest is
\* ignored.  The value is kept as sign, integer part and fraction digits.
parseFloat(str) ==
    LET s == TrimLeft(str)
        signed == s # <<>> /\ Head(s) \in {"-", "+"}
        t == IF signed THEN Tail(s) ELSE s
        ie == RunEnd(t, 1, Digits)
        hasDot == ie < Len(t) /\ t[ie + 1] = "."
        fe == IF hasDot THEN RunEnd(t, ie + 2, Digits) ELSE ie
        fracDigits == IF hasDot THEN SubSeq(t, ie + 2, fe) ELSE <<>>
    IN  IF ie = 0 /\ fracDigits = <<>> THEN NaN
        ELSE Some([negative |-> signed /\ Head(s) = "-",
                   int |-> DigitsValue(SubSeq(t, 1, ie)), frac |-> fracDigits])

\* Math.round(n * 100) for a parsed number n (halves round towards +infinity)
RoundTimes100(n) ==
    LET d(k) == IF k <= Len(n.frac) THEN DigitValue(n.frac[k]) ELSE 0
        whole == n.int * 100 + d(1) * 10 + d(2)
        beyondHalf == d(3) > 5 \/ (d(3) = 5 /\ \E k \in 4..Len(n.frac) : d(k) > 0)
    IN  IF n.negative
        THEN 0 - (whole + IF beyondHalf THEN 1 ELSE 0)
        ELSE whole + IF d(3) >= 5 THEN 1 ELSE 0

\* ---------------------------------------------------------- BaseScraper
\* the character class of parsePriceString, line 79: it holds the comma
PriceSymbols == {"$", ",", "£", "€", "¥", "₽"}

\* BaseScraper.parsePriceString: null, or the amount in cents and the currency
parsePriceString(priceStr) ==
    LET cleaned == trim(RemoveChars(RemoveChars(priceStr, PriceSymbols), {","}))
        price == parseFloat(cleaned)
    IN  IF priceStr = <<>> \/ price = NaN THEN Undefined
        ELSE Some([price |-> RoundTimes100(price[1]),
                   currency |-> IF "£" \in Chars(priceStr) THEN "GBP"
                                ELSE IF "€" \in Chars(priceStr) THEN "EUR"
                                ELSE IF "¥" \in Chars(priceStr) \/ "円" \in Chars(priceStr)
                                     THEN "JPY"
                                ELSE IF "₽" \in Chars(priceStr) THEN "RUB"
                                ELSE "USD"])

\* an image source is text in fragments: "https:" first when absolute,
\* "//" first when protocol-relative
PlaceholderImage == <<"https:", "//", "via.placeholder.com", "/400">>

\* BaseScraper.resolveUrl
resolveUrl(relativeUrl, url) ==
    IF relativeUrl = <<>> THEN <<>>
    ELSE IF relativeUrl[1] = "//" THEN <<"https:">> \o relativeUrl
    ELSE IF relativeUrl[1] = "https:" THEN relativeUrl
    ELSE <<"https:", "//">> \o url.host \o relativeUrl

\* [...new Set(xs)]: the first occurrence of each element, in order
RECURSIVE Dedup(_)
Dedup(xs) ==
    IF xs = <<>> THEN <<>>
    ELSE LET front == SubSeq(xs, 1, Len(xs) - 1)
             last == xs[Len(xs)]
         IN  IF \E k \in 1..Len(front) : front[k] = last
             THEN Dedup(front) ELSE Append(Dedup(front), last)

SomeInStock(sizes) == \E k \in 1..Len(sizes) : sizes[k].inStock

\* a default orchestration that returns the images as found
BaseScrapeNoPlaceholder(g, url) ==
    [name |-> IF g.name = Undefined THEN "Untitled Product" ELSE g.name[1],
     priceInfo |-> g.priceInfo,
     availableSizes |-> g.sizes,
     images |-> Dedup([k \in 1..Len(g.images) |-> resolveUrl(g.images[k], url)]),
     inStock |-> g.inStock,
     description |-> g.description]

\* BaseScraper.scrape: the default orchestration over a variant's getters
BaseScrape(g, url) ==
    LET images == [k \in 1..Len(g.images) |-> resolveUrl(g.images[k], url)] IN
    [name |-> IF g.name = Undefined THEN "Untitled Product" ELSE g.name[1],
     priceInfo |-> g.priceInfo,
     availableSizes |-> g.sizes,
     images |-> IF Len(images) > 0 THEN Dedup(images) ELSE <<PlaceholderImage>>,
     inStock |-> g.inStock,
     description |-> g.description]

\* ------------------------------------------------------------- extractors
\* MytheresaScraper: the getters, under the default orchestration
MytheresaScrape(page, url) ==
    BaseScrape([name |-> page.name,
                priceInfo |-> parsePriceString(page.priceText),
                sizes |-> page.sizes,
                images |-> page.images,
                inStock |-> Len(page.sizes) > 0 /\ SomeInStock(page.sizes),
                description |-> Undefined], url)

\* what a wait-for-selector that times out rejects with
WaitForSelectorMessage == <<"Waiting for", "selector", "failed: timeout 5000ms exceeded">>

\* JCrewScraper.getPuppeteerSizes: buttons, or a dropdown to click open; a
\* rejection whose message mentions "selector" yields the One Size entry
JCrewGetPuppeteerSizes(page) ==
    IF page.sizeUi = "stuck"
    THEN IF Includes(WaitForSelectorMessage, <<"selector">>)
         THEN <<[name |-> "One Size", inStock |-> page.addToBag]>>
         ELSE <<>>
    ELSE page.sizes

\* JCrewScraper.getPrice, lines 214-227: the last match of /[$£€]?[\d,.]+/g
JCrewLastPrice(priceText) ==
    LET class == Digits \cup {",", "."}
        ends == {e \in 1..Len(priceText) :
                    priceText[e] \in class
                    /\ (e = Len(priceText) \/ priceText[e + 1] \notin class)}
    IN  IF ends = {} THEN priceText
        ELSE LET e == CHOOSE x \in ends : \A y \in ends : y <= x
                 b == CHOOSE x \in 1..e :
                         /\ \A k \in x..e : priceText[k] \in class
                         /\ x = 1 \/ priceText[x - 1] \notin class
                 from == IF b > 1 /\ priceText[b - 1] \in {"$", "£", "€"}
                         THEN b - 1 ELSE b
             IN  SubSeq(priceText, from, e)

\* JCrewScraper.scrape: its own orchestration
JCrewScrape(page, url) ==
    LET sizes == JCrewGetPuppeteerSizes(page)
        overallInStock == page.addToBag
    IN  [name |-> IF page.name = Undefined THEN "Untitled Product" ELSE page.name[1],
         priceInfo |-> parsePriceString(JCrewLastPrice(page.priceText)),
         availableSizes |-> sizes,
         images |-> [k \in 1..Len(Dedup(page.images)) |->
                        resolveUrl(Dedup(page.images)[k], url)],
         inStock |-> overallInStock /\ (Len(sizes) = 0 \/ SomeInStock(sizes)),
         description |-> Undefined]

\* RalphLaurenScraper.getSizes: the schema's variants, else the HTML swatches
RalphLaurenGetSizes(page) ==
    IF page.schema # Undefined /\ page.schema[1].hasVariant # <<>>
    THEN LET availability == page.schema[1].availability
             globalInStock == IF availability = Undefined THEN TRUE
                              ELSE Includes(availability[1], <<"InStock">>)
         IN  [k \in 1..Len(Dedup(page.schema[1].hasVariant)) |->
                 [name |-> Dedup(page.schema[1].hasVariant)[k], inStock |-> globalInStock]]
    ELSE page.sizes

\* RalphLaurenScraper.getInStock: the schema's availability, else the sizes,
\* else the add-to-bag button
RalphLaurenGetInStock(page) ==
    IF page.schema # Undefined /\ page.schema[1].availability # Undefined
    THEN Includes(page.schema[1].availability[1], <<"InStock">>)
    ELSE LET sizes == RalphLaurenGetSizes(page) IN
         IF Len(sizes) > 0 THEN SomeInStock(sizes) ELSE page.addToBag

\* RalphLaurenScraper.scrape (the modelled schemas carry no offers.price, so
\* the price comes from the HTML)
RalphLaurenScrape(page, url) ==
    [name |-> IF page.name = Undefined THEN "Untitled Product" ELSE page.name[1],
     priceInfo |-> parsePriceString(page.priceText),
     availableSizes |-> RalphLaurenGetSizes(page),
     images |-> [k \in 1..Len(Dedup(page.images)) |->
                    resolveUrl(Dedup(page.images)[k], url)],
     inStock |-> RalphLaurenGetInStock(page),
     description |-> Undefined]

\* the classes whose scrape() is modelled on page content
ContentScrapers == {"MytheresaScraper", "JCrewScraper", "RalphLaurenScraper"}

\* scraperInstance.scrape() on a loaded page
ScrapeContent(cls, page, url) ==
    CASE cls = "MytheresaScraper" -> MytheresaScrape(page, url)
      [] cls = "JCrewScraper" -> JCrewScrape(page, url)
      [] cls = "RalphLaurenScraper" -> RalphLaurenScrape(page, url)

\* ------------------------------------------------ generic scraper (cheerio)
\* [\d,.\s]
NumericChars == Digits \cup {",", ".", " "}
CurrencySymbols == {"$", "£", "€", "¥", "₽"}

\* scrapeWithCheerio, lines 419-450: separators of one captured number
normalizePrice(priceStr) ==
    LET s == RemoveChars(priceStr, {" "})
        hasComma == "," \in Chars(s)
        hasDot == "." \in Chars(s)
        Count(ch) == Cardinality({k \in 1..Len(s) : s[k] = ch})
        \* parts.length === 2 && parts[1].length <= 2 for split(ch)
        TwoPartsShortTail(ch) ==
            Count(ch) = 1 /\ Len(s) - lastIndexOf(s, ch) <= 2
    IN  IF hasComma /\ hasDot
        THEN IF lastIndexOf(s, ",") > lastIndexOf(s, ".")
             THEN parseFloat(ReplaceFirst(RemoveChars(s, {"."}), ",", <<".">>))
             ELSE parseFloat(RemoveChars(s, {","}))
        ELSE IF hasComma
        THEN IF TwoPartsShortTail(",")
             THEN parseFloat(ReplaceFirst(s, ",", <<".">>))
             ELSE parseFloat(RemoveChars(s, {","}))
        ELSE IF hasDot
        THEN IF TwoPartsShortTail(".")
             THEN parseFloat(s)
             ELSE parseFloat(RemoveChars(s, {"."}))
        ELSE parseFloat(s)

\* the words of the sale-price expression, in the order of its alternation
SaleKeywords ==
    << <<"s", "a", "l", "e">>,
       <<"d", "i", "s", "c", "o", "u", "n", "t", "e", "d">>,
       <<"f", "i", "n", "a", "l">>,
       <<"n", "o", "w">>,
       <<"s", "p", "e", "c", "i", "a", "l">> >>

WordAt(text, pos, word) ==
    /\ pos + Len(word) - 1 <= Len(text)
    /\ \A k \in 1..Len(word) : LowerChar(text[pos + k - 1]) = word[k]

\* the capture of [:\s]*[\$£€¥₽]*\s*([\d,.\s]+) at p, under greedy matching
\* with backtracking: the longest first run, then the longest second, then
\* the longest third, such that a numeric character follows
SaleTail(text, p) ==
    LET fits(a, b, c) ==
            /\ p + a + b + c <= Len(text)
            /\ \A k \in p..(p + a - 1) : text[k] \in {":", " "}
            /\ \A k \in (p + a)..(p + a + b - 1) : text[k] \in CurrencySymbols
            /\ \A k \in (p + a + b)..(p + a + b + c - 1) : text[k] = " "
            /\ text[p + a + b + c] \in NumericChars
        span == 0..(Len(text) - p + 1)
        triples == {t \in span \X span \X span : fits(t[1], t[2], t[3])}
        before(t, u) ==
            \/ t[1] > u[1]
            \/ t[1] = u[1] /\ t[2] > u[2]
            \/ t[1] = u[1] /\ t[2] = u[2] /\ t[3] >= u[3]
    IN  IF triples = {} THEN Undefined
        ELSE LET t == CHOOSE t \in triples : \A u \in triples : before(t, u)
                 q == p + t[1] + t[2] + t[3]
             IN  Some(SubSeq(text, q, RunEnd(text, q, NumericChars)))

\* priceText.match(/(?:sale|discounted|final|now|special).../i): the capture
\* of the leftmost match, or undefined
SalePriceMatch(text) ==
    LET hits == {h \in (1..Len(text)) \X (1..Len(SaleKeywords)) :
                    /\ WordAt(text, h[1], SaleKeywords[h[2]])
                    /\ SaleTail(text, h[1] + Len(SaleKeywords[h[2]])) # Undefined}
    IN  IF hits = {} THEN Undefined
        ELSE LET h == CHOOSE h \in hits :
                        \A g \in hits : h[1] < g[1] \/ (h[1] = g[1] /\ h[2] <= g[2])
             IN  SaleTail(text, h[1] + Len(SaleKeywords[h[2]]))

\* the end of \(-?\d+%\) when it matches at s, else 0
PercentMarkerEnd(text, s) ==
    IF s > Len(text) \/ text[s] # "(" THEN 0
    ELSE LET d == IF s + 1 <= Len(text) /\ text[s + 1] = "-" THEN s + 2 ELSE s + 1
             e == RunEnd(text, d, Digits)
         IN  IF e >= d /\ e + 2 <= Len(text) /\ text[e + 1] = "%" /\ text[e + 2] = ")"
             THEN e + 2 ELSE 0

\* priceText.match(/\(-?\d+%\)[^\d]*([\d,.\s]+)/): the capture, or undefined
PercentageDiscountMatch(text) ==
    LET Capture(s) ==
            LET e == PercentMarkerEnd(text, s)
                skips == {n \in 0..(Len(text) - e) :
                             /\ \A k \in (e + 1)..(e + n) : text[k] \notin Digits
                             /\ e + n + 1 <= Len(text)
                             /\ text[e + n + 1] \in NumericChars}
            IN  IF e = 0 \/ skips = {} THEN Undefined
                ELSE LET n == CHOOSE n \in skips : \A m \in skips : m <= n
                     IN  Some(SubSeq(text, e + n + 1,
                                     RunEnd(text, e + n + 1, NumericChars)))
        starts == {s \in 1..Len(text) : Capture(s) # Undefined}
    IN  IF starts = {} THEN Undefined
        ELSE Capture(CHOOSE s \in starts : \A r \in starts : s <= r)

\* priceText.match(/[\d,.\s]+/g): the maximal runs, left to right
RECURSIVE AllPricesFrom(_, _)
AllPricesFrom(text, from) ==
    IF from > Len(text) THEN <<>>
    ELSE IF text[from] \notin NumericChars THEN AllPricesFrom(text, from + 1)
    ELSE LET e == RunEnd(text, from, NumericChars)
         IN  <<SubSeq(text, from, e)>> \o AllPricesFrom(text, e + 1)

\* scrapeWithCheerio, lines 452-469 and 599: Math.round of the selected
\* number times 100; 0 when the text holds no number
GenericPrice(priceText) ==
    LET sale == SalePriceMatch(priceText)
        percentage == PercentageDiscountMatch(priceText)
        allPrices == AllPricesFrom(priceText, 1)
        n == IF sale # Undefined THEN normalizePrice(sale[1])
             ELSE IF percentage # Undefined THEN normalizePrice(percentage[1])
             ELSE IF allPrices # <<>> THEN normalizePrice(allPrices[Len(allPrices)])
             ELSE Some([negative |-> FALSE, int |-> 0, frac |-> <<>>])
    IN  IF n = NaN THEN NaN ELSE Some(RoundTimes100(n[1]))

\* scrapeWithCheerio, lines 471-484: the currency of the price text (the
\* modelled pages carry no currency meta tag)
GenericCurrency(priceText) ==
    LET has(sub) == Includes(priceText, sub) IN
    IF has(<<"$">>) /\ ~has(<<"H", "K", "$">>) /\ ~has(<<"A", "$">>) THEN "USD"
    ELSE IF has(<<"H", "K", "$">>) THEN "HKD"
    ELSE IF has(<<"A", "$">>) THEN "AUD"
    ELSE IF has(<<"£">>) THEN "GBP"
    ELSE IF has(<<"€">>) THEN "EUR"
    ELSE IF has(<<"¥">>) \/ has(<<"C", "N", "Y">>) THEN "CNY"
    ELSE IF has(<<"₽">>) \/ has(<<"R", "U", "B">>) THEN "RUB"
    ELSE IF has(<<"C", "A", "D">>) \/ has(<<"C", "$">>) THEN "CAD"
    ELSE IF has(<<"S", "G", "D">>) \/ has(<<"S", "$">>) THEN "SGD"
    ELSE "USD"

\* cleanSizes: the labels that look like a size, once each
SizeLikeTexts == {"XS", "S", "M", "L", "XL", "One Size", "38"}
cleanSizes(rawSizes) == Dedup(SelectSeq(rawSizes, LAMBDA t : t \in SizeLikeTexts))

\* the stock patterns of scrapeWithCheerio, lower-cased (they carry /i)
OutOfStockPatterns ==
    {"out of stock", "sold out", "currently unavailable", "not available",
     "no longer available", "discontinued", "\"availability\": \"outofstock\"",
     "\"availability\": \"soldout\"", "class=\"out-of-stock", "class=\"sold-out",
     "class=\"unavailable", "\"instock\": false", "\"available\": false"}
InStockPatterns ==
    {"\"availability\": \"instock\"", "\"availability\": \"https://schema.org/instock\"",
     "\"instock\": true", "\"available\": true",
     "add to cart", "add to bag", "add to basket"}

\* lower-casing of the markup fragments a page may carry
LowerMarkup(t) ==
    CASE t = "Sold Out" -> "sold out"
      [] t = "Out of Stock" -> "out of stock"
      [] t = "Add to Cart" -> "add to cart"
      [] t = "Add to Bag" -> "add to bag"
      [] t = "\"availability\": \"https://schema.org/InStock\""
            -> "\"availability\": \"https://schema.org/instock\""
      [] t = "\"availability\": \"https://schema.org/OutOfStock\""
            -> "\"availability\": \"https://schema.org/outofstock\""
      [] OTHER -> t

\* a stock decision that lets an add-to-cart signal outvote the negative wording
GenericInStockPositiveFirst(markup) ==
    LET lowered == {LowerMarkup(markup[k]) : k \in 1..Len(markup)} IN
    IF lowered \cap InStockPatterns # {} THEN TRUE
    ELSE lowered \cap OutOfStockPatterns = {}

\* scrapeWithCheerio, lines 586-594: a negative pattern anywhere in the markup
\* decides; without one the product is in stock, positive pattern or not
GenericInStock(markup) ==
    LET lowered == {LowerMarkup(markup[k]) : k \in 1..Len(markup)}
        hasOutOfStockIndicator == lowered \cap OutOfStockPatterns # {}
        hasInStockIndicator == lowered \cap InStockPatterns # {}
    IN  IF hasOutOfStockIndicator THEN FALSE
        ELSE IF hasInStockIndicator THEN TRUE ELSE TRUE

\* scrapeWithCheerio, line 598: the images, or the placeholder
GenericImages(images) ==
    IF Len(images) > 0 THEN Dedup(images) ELSE <<PlaceholderImage>>

\* scrapeWithCheerio on the fetched document
scrapeWithCheerio(page, url) ==
    LET priceText == IF page.priceText = <<>> THEN <<"0">> ELSE page.priceText
    IN  [name |-> IF page.name = Undefined THEN "Untitled Product" ELSE page.name[1],
         images |-> GenericImages([k \in 1..Len(page.images) |->
                                      resolveUrl(page.images[k], url)]),
         price |-> GenericPrice(priceText),
         currency |-> GenericCurrency(priceText),
         availableSizes |-> cleanSizes([k \in 1..Len(page.sizes) |-> page.sizes[k].name]),
         inStock |-> GenericInStock(page.markup),
         description |-> Some("")]

\* ------------------------------------------------------------------ pages
TextEuroComma == <<"€", "4", "5", ",", "5", "0">>
TextDollars == <<"$", "1", "2", ".", "3", "4">>
TextPounds == <<"£", "1", ",", "2", "9", "0">>
TextRrp ==
    <<"R", "R", "P", ":", " ", "R", "U", "B", " ", "1", "6", "6", ",", "7", "7", "7",
      " ", "(", "-", "5", "0", "%", ")", " ", "R", "U", "B", " ", "8", "3", ",",
      "3", "8", "9">>
TextWasNow ==
    <<"W", "a", "s", " ", "$", "1", "0", "0", " ", "N", "o", "w", " ", "$", "8", "0">>
TextTwoPrices ==
    <<"$", "1", "0", "0", ".", "0", "0", " ", "$", "5", "0", ".", "0", "0">>

ImageRelative == <<"/img", "/a.jpg">>
ImageProtocolRelative == <<"//", "cdn.example", "/b.jpg">>

SchemaOutOfStock ==
    [availability |-> Some(<<"https://schema.org/", "OutOfStock">>), hasVariant |-> <<>>]
SchemaVariants == [availability |-> Undefined, hasVariant |-> <<"S", "M", "S">>]

\* the documents a product url may serve: price text, size controls (with
\* the way they are reached), images, add-to-bag button, embedded schema,
\* and the stock wording of the markup
PageDress ==
    [name |-> Some("Silk Dress"), priceText |-> TextEuroComma,
     sizes |-> <<[name |-> "S", inStock |-> FALSE], [name |-> "M", inStock |-> TRUE]>>,
     sizeUi |-> "buttons", images |-> <<ImageRelative>>, addToBag |-> TRUE,
     schema |-> Undefined, markup |-> <<"Add to Cart">>]
PageCoat ==
    [name |-> Some("Wool Coat"), priceText |-> TextRrp, sizes |-> <<>>,
     sizeUi |-> "buttons", images |-> <<>>, addToBag |-> FALSE,
     schema |-> Undefined, markup |-> <<"Sold Out", "Add to Cart">>]
PageShirt ==
    [name |-> Some("Shirt"), priceText |-> TextDollars,
     sizes |-> <<[name |-> "S", inStock |-> FALSE], [name |-> "M", inStock |-> TRUE]>>,
     sizeUi |-> "dropdown", images |-> <<ImageProtocolRelative, ImageProtocolRelative>>,
     addToBag |-> FALSE, schema |-> Some(SchemaOutOfStock), markup |-> <<>>]
PageBag ==
    [name |-> Some("Bag"), priceText |-> TextPounds, sizes |-> <<>>,
     sizeUi |-> "stuck", images |-> <<ImageRelative, ImageProtocolRelative>>,
     addToBag |-> TRUE, schema |-> Some(SchemaVariants), markup |-> <<"Add to Bag">>]
PageBlank ==
    [name |-> Undefined, priceText |-> <<>>, sizes |-> <<>>, sizeUi |-> "buttons",
     images |-> <<>>, addToBag |-> FALSE, schema |-> Undefined, markup |-> <<>>]
PageSale ==
    [name |-> Some("Boots"), priceText |-> TextWasNow, sizes |-> <<>>,
     sizeUi |-> "buttons", images |-> <<ImageRelative>>, addToBag |-> TRUE,
     schema |-> Undefined, markup |-> <<"Add to Cart">>]
PageTwoPrices ==
    [name |-> Some("Scarf"), priceText |-> TextTwoPrices, sizes |-> <<>>,
     sizeUi |-> "buttons", images |-> <<ImageRelative>>, addToBag |-> TRUE,
     schema |-> Undefined, markup |-> <<"Out of Stock">>]
Pages == {PageDress, PageCoat, PageShirt, PageBag, PageBlank, PageSale, PageTwoPrices}

\* ------------------------------------------------------------------ state
VARIABLES
    storage,   \* the MemStorage instance
    wpc,       \* where main() waits: "launch", "await" (routeAndScrape),
               \* "sleep" (after an item), "idle" (queue empty); "crashed" once
               \* a rejection has reached main().catch
    calls,     \* per caller, its routeAndScrape calls not yet consumed
    api,       \* how many requests of each kind the API has served
    procs      \* the two processes (server, worker): whether each runs, the
               \* shared browser it holds, the cleanup handlers awaiting
               \* browser.close(), and the signals delivered so far

vars == <<storage, wpc, calls, api, procs>>

Init ==
    /\ storage = [items |-> <<>>, priceHistory |-> <<>>, uuid |-> 1]
    /\ wpc = "launch"
    /\ calls = [worker |-> <<>>, api |-> <<>>]
    /\ api = [requests |-> 0, previews |-> 0]
    /\ procs = [server |-> [pc |-> "running", browser |-> "open", cleanups |-> 0],
                worker |-> [pc |-> "running", browser |-> "none"],
                signals |-> 0]

\* --------------------------------------------------------- routeAndScrape
\* line 116: browser.newPage() settles
RouteNewPage(who, i) ==
    /\ calls[who][i].pc = "newPage"
    /\ \/ calls' = [calls EXCEPT ![who][i].page = "open", ![who][i].pc = "navigate"]
       \/ \E e \in OpenErrors : calls' = [calls EXCEPT ![who][i] = RouteCatch(@, e)]
    /\ UNCHANGED <<storage, wpc, api, procs>>

\* a navigation without a timeout: where goto would time out, it never settles
RouteNavigateNoTimeout(who, i) ==
    /\ calls[who][i].pc = "navigate"
    /\ \/ calls' = [calls EXCEPT ![who][i].navigated = TRUE, ![who][i].pc = "scrape"]
       \/ \E e \in OpenErrors : calls' = [calls EXCEPT ![who][i] = RouteCatch(@, e)]
       \/ \E e \in NavigationErrors \ {TimeoutMessage} :
             calls' = [calls EXCEPT ![who][i] =
                          RouteCatch([@ EXCEPT !.navigated = TRUE], e)]
       \/ calls' = [calls EXCEPT ![who][i].pc = "hung"]
    /\ UNCHANGED <<storage, wpc, api, procs>>

\* lines 117-131: user agent, viewport, goto, settle delay, content
RouteNavigate(who, i) ==
    /\ calls[who][i].pc = "navigate"
    /\ \/ calls' = [calls EXCEPT ![who][i].navigated = TRUE, ![who][i].pc = "scrape"]
       \/ \E e \in OpenErrors : calls' = [calls EXCEPT ![who][i] = RouteCatch(@, e)]
       \/ \E e \in NavigationErrors :
             calls' = [calls EXCEPT ![who][i] =
                          RouteCatch([@ EXCEPT !.navigated = TRUE], e)]
    /\ UNCHANGED <<storage, wpc, api, procs>>

\* a router that hands the live page to every extractor
usePuppeteerAlways(url, cls) == TRUE

\* lines 137-138: whether the extractor is given the live page
usePuppeteer(url, cls) == isJavaScriptHeavySite(url) \/ cls = "AmazonScraper"

\* lines 140-152: new ScraperClass(html, url, page or null); the constructors
\* of RequiresPage throw when they are given null
Construct(c) ==
    LET cls == c.cls[1]
        given == [c EXCEPT !.handle = IF usePuppeteer(c.url, cls) THEN "page" ELSE "null"]
    IN  IF cls \in RequiresPage /\ given.handle = "null"
        THEN RouteCatch(given, <<cls, "requires a Puppeteer page instance.">>)
        ELSE given

\* lines 134-155: construct the extractor and run scrape()
RouteScrape(who, i) ==
    /\ calls[who][i].pc = "scrape"
    /\ LET c == Construct(calls[who][i]) IN
       IF c.pc # "scrape"
       THEN calls' = [calls EXCEPT ![who][i] = c]
       ELSE \/ \E product \in ScrapedProducts :
                  calls' = [calls EXCEPT ![who][i] =
                               [c EXCEPT !.result = Some(product), !.pc = "close"]]
            \/ \E e \in ScrapeErrors :
                  calls' = [calls EXCEPT ![who][i] = RouteCatch(c, e)]
    /\ UNCHANGED <<storage, wpc, api, procs>>

\* lines 158-160: page.close() on the success path, then return
RouteClose(who, i) ==
    /\ calls[who][i].pc = "close"
    /\ \/ calls' = [calls EXCEPT ![who][i].page = "closed", ![who][i].pc = "returned"]
       \/ \E e \in CloseErrors : calls' = [calls EXCEPT ![who][i] = RouteCatch(@, e)]
    /\ UNCHANGED <<storage, wpc, api, procs>>

\* lines 163-169: page.close() inside the catch block, then rethrow
RouteCatchClose(who, i) ==
    /\ calls[who][i].pc = "catchClose"
    /\ \/ calls' = [calls EXCEPT ![who][i].page = "closed", ![who][i].pc = "thrown",
                                 ![who][i].error =
                                     Some(Annotate(calls[who][i], calls[who][i].error[1]))]
       \/ \E e \in CloseErrors :
             calls' = [calls EXCEPT ![who][i].pc = "thrown", ![who][i].error = Some(e),
                                    ![who][i].cause = Some(e)]
    /\ UNCHANGED <<storage, wpc, api, procs>>

\* lines 117-131, with the document the page holds once it has settled
RouteLoad(who, i) ==
    /\ calls[who][i].pc = "navigate"
    /\ \/ \E page \in Pages :
             calls' = [calls EXCEPT ![who][i].navigated = TRUE,
                                    ![who][i].html = Some(page),
                                    ![who][i].pc = "scrape"]
       \/ \E e \in NavigationErrors :
             calls' = [calls EXCEPT ![who][i] =
                          RouteCatch([@ EXCEPT !.navigated = TRUE], e)]
    /\ UNCHANGED <<storage, wpc, api, procs>>

\* lines 134-155, with scrape() computed from the loaded document
RouteExtract(who, i) ==
    /\ calls[who][i].pc = "scrape"
    /\ calls[who][i].html # Undefined
    /\ calls[who][i].cls[1] \in ContentScrapers
    /\ LET c == Construct(calls[who][i]) IN
       calls' = [calls EXCEPT ![who][i] =
                    IF c.pc # "scrape" THEN c
                    ELSE [c EXCEPT !.result =
                                      Some(ScrapeContent(c.cls[1], c.html[1], c.url)),
                                   !.pc = "close"]]
    /\ UNCHANGED <<storage, wpc, api, procs>>

\* ------------------------------------------------------------ worker loop
\* main, lines 144-161: the catch block's choice between link_dead and failed
MainCatch(st, id, message) ==
    IF IsLinkDead(message)
    THEN updateScrapedItem(st, id, Undefined, "link_dead", message)
    ELSE updateScrapedItem(st, id, Undefined, "failed", message)

\* a worker that starts the extraction and does not wait for it
WorkerPollNoAwait ==
    /\ wpc \in {"launch", "sleep", "idle"}
    /\ LET item == getNextItemToScrape(storage) IN
       IF item = Undefined
       THEN /\ wpc' = "idle"
            /\ UNCHANGED calls
       ELSE /\ wpc' = "sleep"
            /\ calls' = [calls EXCEPT !.worker =
                            Append(@, RouteStart(item[1].id, item[1].url))]
    /\ procs' = [procs EXCEPT !.worker.browser = "open"]
    /\ UNCHANGED <<storage, api>>

\* main, lines 120-140 and 163-171: the browser launch or the sleep (10-15 s
\* after an item, 60 s when idle) ends; poll the store and start the
\* extraction, or go idle
WorkerPoll ==
    /\ wpc \in {"launch", "sleep", "idle"}
    /\ LET item == getNextItemToScrape(storage) IN
       IF item = Undefined
       THEN /\ wpc' = "idle"
            /\ UNCHANGED calls
       ELSE /\ wpc' = "await"
            /\ calls' = [calls EXCEPT !.worker =
                            Append(@, RouteStart(item[1].id, item[1].url))]
    /\ procs' = [procs EXCEPT !.worker.browser = "open"]
    /\ UNCHANGED <<storage, api>>

\* a worker whose loop body has no try/catch: the rejection reaches main().catch
WorkerPersistNoCatch ==
    /\ wpc = "await"
    /\ calls.worker # <<>>
    /\ calls.worker[1].pc \in {"returned", "thrown"}
    /\ LET c == calls.worker[1] IN
       IF c.pc = "returned"
       THEN /\ storage' = updateScrapedItem(storage, c.itemId, c.result[1],
                                            "processed", Undefined)
            /\ wpc' = "sleep"
       ELSE /\ storage' = storage
            /\ wpc' = "crashed"
    /\ calls' = [calls EXCEPT !.worker = Tail(@)]
    /\ UNCHANGED <<api, procs>>

\* main, lines 140-161: the awaited call settles and its outcome is persisted
WorkerPersist ==
    /\ wpc = "await"
    /\ calls.worker # <<>>
    /\ calls.worker[1].pc \in {"returned", "thrown"}
    /\ LET c == calls.worker[1] IN
       storage' =
          IF c.pc = "returned"
          THEN updateScrapedItem(storage, c.itemId, c.result[1], "processed", Undefined)
          ELSE MainCatch(storage, c.itemId, c.error[1])
    /\ calls' = [calls EXCEPT !.worker = Tail(@)]
    /\ wpc' = "sleep"
    /\ UNCHANGED <<api, procs>>

\* -------------------------------------------------------------------- API
\* POST /api/items: queue a new item, no scraping
ApiCreateItem(url) ==
    /\ api.requests < MaxRequests
    /\ storage' = createItem(storage,
          [url |-> url, status |-> "pending", name |-> Some("Processing..."),
           images |-> <<>>, availableSizes |-> <<>>, inStock |-> TRUE,
           price |-> Undefined, currency |-> Undefined, description |-> Undefined,
           lastCheckedAt |-> Undefined, lastCheckError |-> Undefined])
    /\ api' = [api EXCEPT !.requests = @ + 1]
    /\ UNCHANGED <<wpc, calls, procs>>

\* DELETE /api/items/:id
ApiDeleteItem(id) ==
    /\ api.requests < MaxRequests
    /\ IndexOf(storage, id) # 0
    /\ storage' = deleteItem(storage, id)
    /\ api' = [api EXCEPT !.requests = @ + 1]
    /\ UNCHANGED <<wpc, calls, procs>>

\* DELETE /api/items/:id for an id the store no longer holds: deleteItem
\* still drops the rows filed under that id, then the handler answers 404
ApiDeleteMissing(id) ==
    /\ api.requests < MaxRequests
    /\ IndexOf(storage, id) = 0
    /\ storage' = deleteItem(storage, id)
    /\ api' = [api EXCEPT !.requests = @ + 1]
    /\ UNCHANGED <<wpc, calls, procs>>

\* the loop of check-all-prices over the items it read
RECURSIVE QueueItems(_, _)
QueueItems(st, items) ==
    IF items = <<>> THEN st
    ELSE LET item == Head(items) IN
         IF item.status # "pending" /\ item.status # "link_dead"
         THEN QueueItems(updateItem(st, item.id, [status |-> "pending"]), Tail(items))
         ELSE QueueItems(st, Tail(items))

\* POST /api/items/check-all-prices: re-queue every item not pending or dead
ApiCheckAllPrices ==
    /\ api.requests < MaxRequests
    /\ storage' = QueueItems(storage, getItems(storage))
    /\ api' = [api EXCEPT !.requests = @ + 1]
    /\ UNCHANGED <<wpc, calls, procs>>

\* POST /api/items/preview, lines 98-107: routeAndScrape on the posted url
ApiPreview(url) ==
    /\ api.previews < MaxPreviews
    /\ calls' = [calls EXCEPT !.api = Append(@, RouteStart(0, url))]
    /\ api' = [api EXCEPT !.previews = @ + 1]
    /\ UNCHANGED <<storage, wpc, procs>>

\* POST /api/items/preview, lines 135-154: the response; nothing is stored
ApiPreviewRespond(i) ==
    /\ calls.api[i].pc \in {"returned", "thrown"}
    /\ calls' = [calls EXCEPT !.api = SubSeq(@, 1, i - 1) \o SubSeq(@, i + 1, Len(@))]
    /\ UNCHANGED <<storage, wpc, api, procs>>

\* updates of a failed manual check that also clear the stock flag
ManualFailedUpdatesOutOfStock(message) ==
    [status |-> "failed", lastCheckedAt |-> Some("Date"),
     lastCheckError |-> Some(message), inStock |-> FALSE]

\* check-price, lines 545-549: what the catch block writes
ManualFailedUpdates(message) ==
    [status |-> "failed", lastCheckedAt |-> Some("Date"),
     lastCheckError |-> Some(message)]

\* POST /api/items/:id/check-price, lines 479-499: look the item up (404 when
\* it is gone) and call routeAndScrape with the server's browser
ApiCheckPrice(id) ==
    /\ api.requests < MaxRequests
    /\ LET item == getItem(storage, id) IN
       calls' = IF item = Undefined THEN calls
                ELSE [calls EXCEPT !.api = Append(@, RouteStart(id, item[1].url))]
    /\ api' = [api EXCEPT !.requests = @ + 1]
    /\ UNCHANGED <<storage, wpc, procs>>

\* check-price, lines 500-559: the awaited call settles; store the scraped
\* fields and a history row, or record the failure
ApiCheckPriceDone(i) ==
    /\ calls.api[i].itemId # 0
    /\ calls.api[i].pc \in {"returned", "thrown"}
    /\ LET c == calls.api[i] IN
       storage' =
          IF c.pc = "returned"
          THEN LET scrapedData == c.result[1]
                   updates ==
                       [name |-> Some(scrapedData.name),
                        price |-> IF scrapedData.priceInfo = Undefined THEN Undefined
                                  ELSE Some(scrapedData.priceInfo[1].price),
                        currency |-> IF scrapedData.priceInfo = Undefined THEN Undefined
                                     ELSE Some(scrapedData.priceInfo[1].currency),
                        images |-> scrapedData.images,
                        availableSizes |-> [k \in 1..Len(scrapedData.availableSizes) |->
                                               scrapedData.availableSizes[k].name],
                        inStock |-> scrapedData.inStock,
                        description |-> scrapedData.description,
                        status |-> "processed",
                        lastCheckedAt |-> Some("Date"),
                        lastCheckError |-> Undefined]
                   st1 == updateItem(storage, c.itemId, updates)
               IN  IF updates.price # Undefined /\ updates.currency # Undefined
                   THEN addPriceHistory(st1, [itemId |-> c.itemId, price |-> updates.price,
                                              currency |-> updates.currency,
                                              inStock |-> updates.inStock])
                   ELSE st1
          ELSE updateItem(storage, c.itemId, ManualFailedUpdates(c.error[1]))
    /\ calls' = [calls EXCEPT !.api = SubSeq(@, 1, i - 1) \o SubSeq(@, i + 1, Len(@))]
    /\ UNCHANGED <<wpc, api, procs>>

\* what scrapeProductFromUrl rethrows for any failure but a 404
GenericFailureMessage == <<"Failed to fetch product details. Check URL or website structure.">>

\* the older preview route: scrapeProductFromUrl(url) starts the HTTP fetch
GenericStart(url) ==
    /\ api.previews < MaxPreviews
    /\ calls' = [calls EXCEPT !.api =
                    Append(@, [pc |-> "fetch", itemId |-> 0, url |-> url,
                               domain |-> <<>>, cls |-> Undefined, page |-> "null",
                               navigated |-> FALSE, html |-> Undefined,
                               handle |-> "none", result |-> Undefined,
                               error |-> Undefined, cause |-> Undefined])]
    /\ api' = [api EXCEPT !.previews = @ + 1]
    /\ UNCHANGED <<storage, wpc, procs>>

\* scrapeWithCheerio, lines 362-376 and scrapeProductFromUrl's catch: the
\* response arrives; a 404 and any other failure reject, a document is scraped
GenericFetch(i) ==
    /\ calls.api[i].pc = "fetch"
    /\ \/ \E page \in Pages :
             calls' = [calls EXCEPT !.api[i].html = Some(page),
                                    !.api[i].result =
                                        Some(scrapeWithCheerio(page, calls.api[i].url)),
                                    !.api[i].pc = "returned"]
       \/ \E e \in {LinkDeadMessage, GenericFailureMessage} :
             calls' = [calls EXCEPT !.api[i].pc = "thrown", !.api[i].error = Some(e),
                                    !.api[i].cause = Some(e)]
    /\ UNCHANGED <<storage, wpc, api, procs>>

\* ----------------------------------------------------------------- signals
\* routes.ts, lines 650-661: SIGTERM or SIGINT reaches the server; cleanup
\* starts and awaits browserInstance.close()
ServerSignal ==
    /\ procs.signals < MaxSignals
    /\ procs.server.pc = "running"
    /\ procs' = [procs EXCEPT !.signals = @ + 1, !.server.cleanups = @ + 1]
    /\ UNCHANGED <<storage, wpc, calls, api>>

\* lines 653-657: a cleanup's await settles; process.exit(0) once the browser
\* has closed, or the rejection, handled nowhere, ends the process
ServerCleanupExit ==
    /\ procs.server.pc = "running"
    /\ procs.server.cleanups > 0
    /\ \/ procs' = [procs EXCEPT !.server.browser = "closed", !.server.pc = "exited"]
       \/ procs' = [procs EXCEPT !.server.pc = "exited"]
    /\ UNCHANGED <<storage, wpc, calls, api>>

\* worker.ts registers no signal handler: SIGTERM or SIGINT ends the process
\* where it stands, with whatever browser main() has launched
WorkerSignal ==
    /\ procs.signals < MaxSignals
    /\ procs.worker.pc = "running"
    /\ procs' = [procs EXCEPT !.signals = @ + 1, !.worker.pc = "exited"]
    /\ UNCHANGED <<storage, wpc, calls, api>>

RouteStep(who) ==
    \/ \E i \in 1..Len(calls[who]) : RouteNewPage(who, i)
    \/ \E i \in 1..Len(calls[who]) : RouteNavigate(who, i)
    \/ \E i \in 1..Len(calls[who]) : RouteScrape(who, i)
    \/ \E i \in 1..Len(calls[who]) : RouteClose(who, i)
    \/ \E i \in 1..Len(calls[who]) : RouteCatchClose(who, i)

\* the worker process and the API handlers that feed its queue
Next ==
    \/ RouteStep("worker")
    \/ WorkerPoll
    \/ WorkerPersist
    \/ \E url \in Urls : ApiCreateItem(url)
    \/ \E id \in 1..storage.uuid : ApiDeleteItem(id)
    \/ ApiCheckAllPrices

Spec == Init /\ [][Next]_vars

\* the router alone, driven by preview requests for any url
NextRouter ==
    \/ RouteStep("api")
    \/ \E url \in RouterUrls : ApiPreview(url)
    \/ \E i \in 1..Len(calls.api) : ApiPreviewRespond(i)

SpecRouter == Init /\ [][NextRouter]_vars

\* the router and the generic scraper on page content, driven by previews
NextExtract ==
    \/ \E i \in 1..Len(calls.api) : RouteNewPage("api", i)
    \/ \E i \in 1..Len(calls.api) : RouteLoad("api", i)
    \/ \E i \in 1..Len(calls.api) : RouteExtract("api", i)
    \/ \E i \in 1..Len(calls.api) : RouteClose("api", i)
    \/ \E i \in 1..Len(calls.api) : RouteCatchClose("api", i)
    \/ \E url \in ExtractUrls : ApiPreview(url)
    \/ \E url \in GenericUrls : GenericStart(url)
    \/ \E i \in 1..Len(calls.api) : GenericFetch(i)
    \/ \E i \in 1..Len(calls.api) : ApiPreviewRespond(i)

SpecExtract == Init /\ [][NextExtract]_vars

\* the worker draining items of a static registered domain, page content included
NextEndToEnd ==
    \/ \E i \in 1..Len(calls.worker) : RouteNewPage("worker", i)
    \/ \E i \in 1..Len(calls.worker) : RouteLoad("worker", i)
    \/ \E i \in 1..Len(calls.worker) : RouteExtract("worker", i)
    \/ \E i \in 1..Len(calls.worker) : RouteClose("worker", i)
    \/ \E i \in 1..Len(calls.worker) : RouteCatchClose("worker", i)
    \/ WorkerPoll
    \/ WorkerPersist
    \/ ApiCreateItem(UrlMytheresa)

SpecEndToEnd == Init /\ [][NextEndToEnd]_vars

\* the worker, the bulk re-queue, deletions and manual single-item checks
NextManual ==
    \/ RouteStep("worker")
    \/ RouteStep("api")
    \/ WorkerPoll
    \/ WorkerPersist
    \/ ApiCreateItem(UrlMytheresa)
    \/ \E id \in 1..storage.uuid : ApiDeleteItem(id)
    \/ \E id \in 1..storage.uuid : ApiDeleteMissing(id)
    \/ ApiCheckAllPrices
    \/ \E id \in 1..storage.uuid : ApiCheckPrice(id)
    \/ \E i \in 1..Len(calls.api) : ApiCheckPriceDone(i)

SpecManual == Init /\ [][NextManual]_vars

\* both processes under termination signals
NextShutdown ==
    \/ procs.worker.pc = "running" /\ RouteStep("worker")
    \/ procs.worker.pc = "running" /\ WorkerPoll
    \/ procs.worker.pc = "running" /\ WorkerPersist
    \/ procs.server.pc = "running" /\ ApiCreateItem(UrlMytheresa)
    \/ ServerSignal
    \/ ServerCleanupExit
    \/ WorkerSignal

SpecShutdown == Init /\ [][NextShutdown]_vars

\* the worker loop with its timers and awaits settling: the sleep ends, each
\* step of routeAndScrape settles (with a result, an error or a timeout),
\* and the loop body resumes after the awaited call
NextLive ==
    \/ RouteStep("worker")
    \/ WorkerPoll
    \/ WorkerPersist
    \/ Len(storage.items) < MaxItems /\ ApiCreateItem(UrlMytheresa)
    \/ ApiCheckAllPrices

Fairness ==
    /\ WF_vars(RouteStep("worker"))
    /\ WF_vars(WorkerPoll)
    /\ WF_vars(WorkerPersist)

SpecLive == Init /\ [][NextLive]_vars /\ Fairness

\* POST /api/items/check-all-prices again and again: the same handler, not
\* counted against the request budget, while the history has room
ApiCheckAllPricesRepeated ==
    /\ Len(storage.priceHistory) < MaxRows
    /\ storage' = QueueItems(storage, getItems(storage))
    /\ UNCHANGED <<wpc, calls, api, procs>>

\* the same loop under bulk rechecks that never stop coming
NextRequeue ==
    \/ RouteStep("worker")
    \/ WorkerPoll
    \/ WorkerPersist
    \/ Len(storage.items) < MaxQueued /\ ApiCreateItem(UrlMytheresa)
    \/ ApiCheckAllPricesRepeated

SpecRequeue == Init /\ [][NextRequeue]_vars /\ Fairness

\* what updateItemSchema lets through: size and lists, each optional
PatchBodies == {[size |-> "M"], [lists |-> <<"gifts">>]}

\* PATCH /api/items/:id, lines 208-230: the parsed body goes to updateItem
ApiPatchItem(id, updates) ==
    /\ api.requests < MaxRequests
    /\ storage' = updateItem(storage, id, updates)
    /\ api' = [api EXCEPT !.requests = @ + 1]
    /\ UNCHANGED <<wpc, calls, procs>>

\* the worker, manual checks, the bulk re-queue and PATCH on the same items
NextPatch ==
    \/ RouteStep("worker")
    \/ RouteStep("api")
    \/ WorkerPoll
    \/ WorkerPersist
    \/ Len(storage.items) < MaxItems /\ ApiCreateItem(UrlMytheresa)
    \/ ApiCheckAllPrices
    \/ \E id \in 1..storage.uuid : ApiCheckPrice(id)
    \/ \E i \in 1..Len(calls.api) : ApiCheckPriceDone(i)
    \/ \E id \in 1..storage.uuid, updates \in PatchBodies : ApiPatchItem(id, updates)

SpecPatch == Init /\ [][NextPatch]_vars

\* ----------------------------------------------------------------- claims
ItemById(st, id) == st.items[IndexOf(st, id)]
RowsOf(st, id) == Len(SelectSeq(st.priceHistory, LAMBDA h : h.itemId = id))
RowsNotOf(st, id) == SelectSeq(st.priceHistory, LAMBDA h : h.itemId # id)

\* the worker leaves its await: the step that persists an iteration's outcome
PersistStep == wpc = "await" /\ wpc' # "await" /\ calls.worker # <<>>
\* the settled call of that iteration, and whether its item is still stored
Settled == calls.worker[1]
SettledItemStored == IndexOf(storage, Settled.itemId) # 0
\* the error that reached the worker was thrown as a not-found error
IsNotFoundCause(message) == message \in {Http404Message, NotFoundMessage}
FailedOtherwise ==
    PersistStep /\ Settled.pc = "thrown" /\ SettledItemStored
        /\ ~IsNotFoundCause(Settled.cause[1])

\* C1: a worker iteration whose extraction succeeds appends exactly one
\* price-history row for its item, whatever price the item had stored.
C1_ExactlyOneRow ==
    [][(PersistStep /\ Settled.pc = "returned" /\ SettledItemStored)
          => RowsOf(storage', Settled.itemId) = RowsOf(storage, Settled.itemId) + 1]_vars

\* C2: after a worker iteration whose extraction succeeds the item's
\* lastCheckError is cleared, also when the item had failed before and was
\* re-queued.
C2_ErrorCleared ==
    [][(PersistStep /\ Settled.pc = "returned" /\ SettledItemStored)
          => ItemById(storage', Settled.itemId).lastCheckError = Undefined]_vars

\* C3: a worker iteration whose extraction succeeds moves its item from
\* pending to processed, and the item is not the next pending item afterwards.
C3_PendingToProcessed ==
    [][(PersistStep /\ Settled.pc = "returned" /\ SettledItemStored)
          => /\ ItemById(storage, Settled.itemId).status = "pending"
             /\ ItemById(storage', Settled.itemId).status = "processed"
             /\ getNextItemToScrape(storage') #
                    Some(ItemById(storage', Settled.itemId))]_vars

\* a processed item is stored ahead of the pending item the worker will take next
C3_Witness ==
    /\ wpc = "sleep"
    /\ \E i, j \in 1..Len(storage.items) :
          /\ i < j
          /\ storage.items[i].status = "processed"
          /\ getNextItemToScrape(storage) = Some(storage.items[j])

C5_OnlyNotFoundKills ==
    [][FailedOtherwise
          => /\ ItemById(storage', Settled.itemId).status # "link_dead"
             /\ ItemById(storage', Settled.itemId).inStock =
                    ItemById(storage, Settled.itemId).inStock]_vars

\* C6: an extraction failure that is not a not-found error moves the item
\* to failed and stores the error's message in lastCheckError.
C6_OtherErrorsFail ==
    [][FailedOtherwise
          => /\ ItemById(storage', Settled.itemId).status = "failed"
             /\ ItemById(storage', Settled.itemId).lastCheckError =
                    Some(Settled.error[1])]_vars

\* C7: a worker iteration that ends in failed leaves the item's price,
\* currency, images and availableSizes as they were and appends no row.
C7_FailedPreserves ==
    [][(PersistStep /\ SettledItemStored
            /\ ItemById(storage', Settled.itemId).status = "failed")
          => /\ \A k \in {"price", "currency", "images", "availableSizes"} :
                   ItemById(storage', Settled.itemId)[k] =
                       ItemById(storage, Settled.itemId)[k]
             /\ storage'.priceHistory = storage.priceHistory]_vars

\* an item that had been scraped with a price has failed and kept it
C7_Witness ==
    /\ wpc = "sleep"
    /\ \E i \in 1..Len(storage.items) :
          /\ storage.items[i].status = "failed"
          /\ storage.items[i].price # Undefined
          /\ storage.items[i].images # <<>>

\* C8: a failed extraction for item X does not stop the loop: the worker
\* goes on to its sleep and next poll, and the step changes no item and no
\* price-history row other than X's.
C8_LoopSurvives ==
    [][(wpc = "await" /\ wpc' # "await" /\ calls.worker # <<>>
            /\ Settled.pc = "thrown")
          => /\ wpc' = "sleep"
             /\ Len(storage'.items) = Len(storage.items)
             /\ \A i \in 1..Len(storage.items) :
                   storage.items[i].id # Settled.itemId
                       => storage'.items[i] = storage.items[i]
             /\ RowsNotOf(storage', Settled.itemId) =
                    RowsNotOf(storage, Settled.itemId)]_vars

\* after X failed the worker is extracting another item, which is untouched
C8_Witness ==
    /\ wpc = "await"
    /\ calls.worker # <<>>
    /\ \E i, j \in 1..Len(storage.items) :
          /\ storage.items[i].status \in {"failed", "link_dead"}
          /\ storage.items[j].id = calls.worker[1].itemId
          /\ storage.items[j].status = "pending"
          /\ storage.items[j].lastCheckedAt = Undefined

\* C9: the worker has at most one routeAndScrape call, and at most one open
\* page, at any time, and polls only when no call of its own is outstanding.
C9_OneExtraction ==
    /\ Len(calls.worker) <= 1
    /\ calls.worker # <<>> => wpc = "await"
    /\ Cardinality({i \in 1..Len(calls.worker) : calls.worker[i].page = "open"}) <= 1

\* a second iteration holds its page after a first one was persisted
C9_Witness ==
    /\ Len(calls.worker) = 1
    /\ calls.worker[1].page = "open"
    /\ \E i \in 1..Len(storage.items) :
          /\ storage.items[i].id # calls.worker[1].itemId
          /\ storage.items[i].lastCheckedAt # Undefined

AllCalls == {calls[who][i] : who \in {"api"}, i \in 1..Len(calls.api)}
               \cup {calls.worker[i] : i \in 1..Len(calls.worker)}
Finished(c) == c.pc \in {"returned", "thrown"}
\* the router's own test for dynamic rendering, read off the call
DynamicRequired(c) == isJavaScriptHeavySite(c.url) \/ c.cls = Some("AmazonScraper")

\* C11: every page a routeAndScrape call has opened is closed by the time
\* the call returns or throws, whichever step failed (the close included)
C11_PageClosedOnExit ==
    \A c \in AllCalls : Finished(c) => c.page # "open"

C13_EuroEndToEnd ==
    [][PersistStep /\ Settled.pc = "returned" /\ SettledItemStored
          /\ ~isJavaScriptHeavySite(Settled.url)
          /\ ItemById(storage, Settled.itemId).status = "pending"
          /\ Settled.html[1].priceText = TextEuroComma
       => LET item == ItemById(storage', Settled.itemId)
              rows == storage'.priceHistory
          IN  /\ item.status = "processed"
              /\ item.price = Some(4550)
              /\ item.currency = Some("EUR")
              /\ RowsOf(storage', Settled.itemId) = RowsOf(storage, Settled.itemId) + 1
              /\ rows[Len(rows)].price = Some(4550)
              /\ rows[Len(rows)].currency = Some("EUR")]_vars

\* the calls that went through the router (the generic scraper has no class)
Routed(c) == c.cls # Undefined

\* C14: whatever the extractor variant, a returned product with at least one
\* size entry in stock is itself in stock
C14_SizeInStockWins ==
    \A c \in AllCalls :
        Routed(c) /\ c.result # Undefined
            /\ (\E k \in 1..Len(c.result[1].availableSizes) :
                   c.result[1].availableSizes[k].inStock)
        => c.result[1].inStock = TRUE

\* the manual check whose call is the i-th of the API's: the step that
\* consumes it
CheckDoneStep(i) ==
    /\ i \in 1..Len(calls.api)
    /\ calls.api[i].itemId # 0
    /\ Finished(calls.api[i])
    /\ calls'.api = SubSeq(calls.api, 1, i - 1) \o SubSeq(calls.api, i + 1, Len(calls.api))

RowIds(st) == {st.priceHistory[k].id : k \in 1..Len(st.priceHistory)}

C17_LinkDeadTerminal ==
    [][\A k \in 1..Len(storage.items) :
          storage.items[k].status = "link_dead"
              /\ IndexOf(storage', storage.items[k].id) # 0
          => ItemById(storage', storage.items[k].id).status = "link_dead"]_vars

\* C18: a process that has exited on a termination signal has closed the
\* shared browser it held
C18_BrowserClosedBeforeExit ==
    \A p \in {"server", "worker"} :
        procs[p].pc = "exited" => procs[p].browser # "open"

\* the default orchestration: the generic scraper, and the variants that do
\* not override scrape()
DefaultOrchestration(c) == c.cls \in {Undefined, Some("MytheresaScraper")}

\* C19: the default orchestration returns a non-empty images list (the
\* placeholder when the page has none) and a boolean inStock
C19_ImagesNeverEmpty ==
    \A c \in AllCalls :
        DefaultOrchestration(c) /\ c.result # Undefined
        => /\ c.result[1].images # <<>>
           /\ c.result[1].inStock \in BOOLEAN
           /\ c.html[1].images = <<>> => c.result[1].images = <<PlaceholderImage>>

\* the default orchestration has scraped a page that shows no image
C19_Witness ==
    \E c \in AllCalls :
        /\ c.cls = Some("MytheresaScraper") /\ c.pc = "returned"
        /\ c.html[1].images = <<>>
        /\ c.result[1].images = <<PlaceholderImage>>
        /\ c.result[1].inStock = FALSE

\* the payable price of each text by the stated precedence
PayablePrice(text) ==
    CASE text = TextRrp -> [price |-> 8338900, currency |-> "RUB"]
      [] text = TextWasNow -> [price |-> 8000, currency |-> "USD"]
      [] text = TextTwoPrices -> [price |-> 5000, currency |-> "USD"]
\* what a returned product says of its price, router or generic
PriceOf(product) ==
    IF "priceInfo" \in DOMAIN product THEN product.priceInfo
    ELSE IF product.price = NaN THEN Undefined
    ELSE Some([price |-> product.price[1], currency |-> product.currency])

\* C20: the price of a text is the number after a sale keyword, else after a
\* percentage-off marker, else the last one: "RRP: RUB 166,777 (-50%) RUB
\* 83,389" is (8338900, RUB)
C20_PayablePriceWins ==
    \A c \in AllCalls :
        c.result # Undefined /\ c.html[1].priceText \in {TextRrp, TextWasNow, TextTwoPrices}
        => PriceOf(c.result[1]) = Some(PayablePrice(c.html[1].priceText))

\* the generic scraper's calls (they have no extractor class)
Generic(c) == c.cls = Undefined
NegativeWording == {"Sold Out", "Out of Stock"}
HasNegativeWording(page) == \E k \in 1..Len(page.markup) : page.markup[k] \in NegativeWording

\* C21: the generic scraper on a page without sizes: negative stock wording
\* makes the product out of stock, add-to-cart signal or not; a page with
\* only a positive signal, or with none, yields an in-stock product
C21_NegativeWordingWins ==
    \A c \in AllCalls :
        Generic(c) /\ c.result # Undefined /\ c.html[1].sizes = <<>>
        => c.result[1].inStock = ~HasNegativeWording(c.html[1])

\* the generic scraper has read a page that says both Sold Out and Add to Cart
C21_Witness ==
    \E c \in AllCalls :
        /\ Generic(c) /\ c.pc = "returned" /\ c.html[1].sizes = <<>>
        /\ c.html[1].markup = <<"Sold Out", "Add to Cart">>
        /\ c.result[1].inStock = FALSE

HasOneSize(product) ==
    \E k \in 1..Len(product.availableSizes) : product.availableSizes[k].name = "One Size"

\* C22: an interactive variant whose size interaction fails on a
\* wait-for-selector timeout (the size control is there, its options never
\* show) returns no fabricated One Size entry
C22_NoOneSizeOnTimeout ==
    \A c \in AllCalls :
        c.cls = Some("JCrewScraper") /\ c.result # Undefined /\ c.html[1].sizeUi = "stuck"
        => ~HasOneSize(c.result[1])

\* the step by which the worker starts the extraction of an item
PollStep == Len(calls'.worker) = Len(calls.worker) + 1
Polled == calls'.worker[Len(calls'.worker)].itemId
\* the store yields items in insertion order, and ids grow with insertion
PendingIds(st) == {st.items[k].id : k \in {j \in 1..Len(st.items) : st.items[j].status = "pending"}}

\* C23: the item the worker starts on is pending and is the earliest
\* inserted of the items pending at the poll, whatever their history
C23_EarliestPendingFirst ==
    [][PollStep => /\ Polled \in PendingIds(storage)
                   /\ \A id \in PendingIds(storage) : Polled <= id
                   /\ IndexOf(storage, Polled) =
                         CHOOSE k \in 1..Len(storage.items) :
                            /\ storage.items[k].status = "pending"
                            /\ \A j \in 1..(k - 1) : storage.items[j].status # "pending"]_vars

\* a re-queued item is being extracted again while a later item, never
\* checked, still waits
C23_Witness ==
    /\ Len(calls.worker) = 1
    /\ \E k \in 1..Len(storage.items) :
          /\ storage.items[k].id = calls.worker[1].itemId
          /\ storage.items[k].lastCheckedAt # Undefined
          /\ \E j \in (k + 1)..Len(storage.items) :
                /\ storage.items[j].status = "pending"
                /\ storage.items[j].lastCheckedAt = Undefined

\* every cleanup invocation calls browserInstance.close() before its first
\* await, so the invocations count the calls of close()
CloseCalls == procs.server.cleanups

\* C24: whatever termination signals reach the server, close() is called on
\* the shared browser at most once
C24_BrowserClosedOnce == CloseCalls <= 1

Classified == {"processed", "failed", "link_dead"}

PendingAt(k) == k <= Len(storage.items) /\ storage.items[k].status = "pending"

\* C28: with every extraction terminating and the worker running, an item
\* that is pending is eventually taken out of pending by the worker, however
\* often bulk rechecks re-queue the items inserted before it (no item is
\* deleted here, so the k-th item stays the k-th)
C28_NoStarvation ==
    \A k \in 1..MaxQueued : PendingAt(k) ~> ~PendingAt(k)

\* C26: every price-history row belongs to an item the store holds
C26_RowsHaveItems ==
    \A k \in 1..Len(storage.priceHistory) :
        IndexOf(storage, storage.priceHistory[k].itemId) # 0

RequiresPageText == <<"requires a Puppeteer page instance.">>

\* C27: a call for a registered domain never fails because its extractor
\* was constructed without the page handle it requires
C27_RegisteredGetsPage ==
    \A c \in AllCalls :
        Routed(c) /\ c.cause # Undefined => ~Includes(c.cause[1], RequiresPageText)

\* C29: an item whose status is link_dead is marked out of stock
C29_LinkDeadOutOfStock ==
    \A k \in 1..Len(storage.items) :
        storage.items[k].status = "link_dead" => storage.items[k].inStock = FALSE

\* an item a manual check had found in stock was then declared link_dead by
\* the worker and patched afterwards
C29_Witness ==
    \E k \in 1..Len(storage.items) :
        /\ storage.items[k].status = "link_dead"
        /\ storage.items[k].price # Undefined
        /\ "size" \in DOMAIN storage.items[k]
        /\ storage.items[k].inStock = FALSE

\* C30: a worker iteration that succeeds with a product without priceInfo
\* leaves the item's stored price and currency as they were
C30_AbsentPriceKeepsPrice ==
    [][PersistStep /\ Settled.pc = "returned" /\ SettledItemStored
          /\ Settled.result[1].priceInfo = Undefined
       => /\ ItemById(storage', Settled.itemId).price
                = ItemById(storage, Settled.itemId).price
          /\ ItemById(storage', Settled.itemId).currency
                = ItemById(storage, Settled.itemId).currency]_vars

====
